---- MODULE Spec2Model ----
(***************************************************************************)
(* The caches of Production-Performance-Patterns:                          *)
(*   - class LRUCache of benchmarks/caching-benchmarks.js,                 *)
(*   - class LRUCache of the memory-management guide,                      *)
(*   - the TTL cache getUserWithCache of mongodb-examples/index.js.        *)
(* A JavaScript Map is a sequence of <<key, value>> pairs in insertion     *)
(* order.  JavaScript runs each synchronous function to completion, so a   *)
(* get or a set is one step; an async function is one step per stretch     *)
(* between awaits.                                                         *)
(***************************************************************************)
EXTENDS Integers, Sequences, FiniteSets, TLC

\* ---- bounds -------------------------------------------------------------
MaxCap == 3
NumKeys == 4
NumCallers == 2
MaxThreshold == 4
MaxInflight == 2
MaxPending == 3
ResetTicks == 3
MaxRuns == 2
MaxLimit == 2
MaxCount == 4
WindowTicks == 2
MaxIter == 3
NumUsers == 1
MaxFetch == 2
MaxWindows == 1

\* ---- values of the program ----------------------------------------------
UNDEFINED == -2
NULL == -1
CACHE_TTL == 300000
DEFAULT_FAILURE_THRESHOLD == 5
NUM_INDEXES == 4
NUM_CASES == 4

Keys == 1..NumKeys
\* stored values: the code tells values apart by truthiness only (if (item)),
\* so 0 stands for the falsy ones (0, "", false, null) and 1 for the truthy
Values == {0, 1}
Capacities == 1..MaxCap
Callers == 1..NumCallers
Users == 1..NumUsers

VARIABLES
  maxSize,    \* this.maxSize of the LRUCache objects
  cache,      \* this.cache of the benchmark LRUCache
  last,       \* the last call on it: operation, arguments, result
  lastSet,    \* history: value of the latest set of each key still held
  guide,      \* SpecBoth: this.cache of the guide's LRUCache, given the same calls
  gret,       \* SpecBoth: what the guide's LRUCache returned for the last call
  recency,    \* SpecUsed: keys of cache by last use (get hit or set), oldest first
  untouched,  \* SpecFifo: keys inserted and never read or rewritten, oldest first
  fifo,       \* SpecFifo: the last call evicted an untouched entry
  now,        \* Date.now()
  ucache,     \* the Map cache of index.js, by user id
  calls,      \* the getUserWithCache calls in progress, by caller
  fetchSeq,   \* number of getUserWithPosts calls started
  tasks,      \* SpecLoop: the callers of lruCache, each at a statement of get or set
  failureThreshold, \* this.failureThreshold of the CircuitBreaker
  cbState,    \* this.state
  failures,   \* this.failures
  inflight,   \* number of execute() calls awaiting this.request()
  timers,     \* the pending setTimeout callbacks: ticks left until each is due
  cbLast,     \* what the last step of the CircuitBreaker was
  streak,     \* history: failed requests in a row since the last success or reset
  openFor,    \* history: ticks gone since the state last became OPEN
  boot,       \* the start-up of index.js: connectDB, then app.listen
  stage,      \* caching-benchmarks.js: the statement runAllBenchmarks is at
  suite,      \* the Benchmark suite: its state, the case and the run it is at
  clients,    \* whether mongoClient and redisClient are open
  closedCall, \* history: a benchmark case called a client that was closed
  rateLimit,  \* the limit the consumer passes to rateLimiter
  counter,    \* Redis: value of the counter key, 0 when the key does not exist
  ttl,        \* Redis: ticks until the counter key expires, NULL without expiry
  limiter,    \* the rateLimiter calls in progress, by caller
  granted,    \* history: calls answered true in the life of the counter key
  rkeys,      \* Redis: the keys (and hash fields) that exist
  rb          \* redis-rabbitmq-benchmarks.js: the benchmark function running

lruVars == <<maxSize, cache, last, lastSet, guide, gret, recency, untouched, fifo>>
ttlVars == <<now, ucache, calls, fetchSeq>>
loopVars == <<tasks>>
cbVars == <<failureThreshold, cbState, failures, inflight, timers, cbLast,
            streak, openFor>>
bootVars == <<boot>>
benchVars == <<stage, suite, clients, closedCall>>
rateVars == <<rateLimit, counter, ttl, limiter, granted>>
redisVars == <<rkeys, rb>>
vars == <<maxSize, cache, last, lastSet, guide, gret, recency, untouched, fifo,
          now, ucache, calls, fetchSeq, tasks,
          failureThreshold, cbState, failures, inflight, timers, cbLast,
          streak, openFor, boot, stage, suite, clients, closedCall,
          rateLimit, counter, ttl, limiter, granted, rkeys, rb>>
\* what the calls on lruCache leave alone, and what getUserWithCache does
scriptVars == <<benchVars, rateVars, redisVars>>
nonLruVars == <<ttlVars, loopVars, cbVars, bootVars, scriptVars>>
nonTtlVars == <<lruVars, loopVars, cbVars, bootVars, scriptVars>>
nonLoopVars == <<ttlVars, cbVars, bootVars, scriptVars>>
nonBootVars == <<lruVars, ttlVars, loopVars, cbVars, scriptVars>>
nonBenchVars == <<lruVars, ttlVars, loopVars, cbVars, bootVars, rateVars,
                  redisVars>>
nonRateVars == <<lruVars, ttlVars, loopVars, cbVars, bootVars, benchVars,
                 redisVars>>
nonRedisVars == <<lruVars, ttlVars, loopVars, cbVars, bootVars, benchVars,
                  rateVars>>

\* ---- JavaScript Map -----------------------------------------------------
MapKeys(m) == {m[i][1] : i \in DOMAIN m}

MapHas(m, k) == \E i \in DOMAIN m : m[i][1] = k

MapGet(m, k) ==
  IF MapHas(m, k) THEN m[CHOOSE i \in DOMAIN m : m[i][1] = k][2] ELSE UNDEFINED

MapDelete(m, k) == SelectSeq(m, LAMBDA e : e[1] # k)

\* faulty variant: set leaves the value of a key it already holds
MapSet_keepOld(m, k, v) ==
  IF MapHas(m, k) THEN m ELSE Append(m, <<k, v>>)

\* Map.prototype.set: a key already held keeps its position
MapSet(m, k, v) ==
  IF MapHas(m, k)
  THEN [i \in DOMAIN m |-> IF m[i][1] = k THEN <<k, v>> ELSE m[i]]
  ELSE Append(m, <<k, v>>)

\* this.cache.keys().next().value
FirstKey(m) == IF m = <<>> THEN UNDEFINED ELSE m[1][1]

Truthy(v) == v \notin {UNDEFINED, NULL, 0}

\* ---- LRUCache of benchmarks/caching-benchmarks.js ------------------------
\* faulty variant: a miss stores the key
LRUCache_get_storeMiss(m, k) ==
  LET value == IF MapHas(m, k) THEN MapGet(m, k) ELSE NULL
  IN  [cache |-> MapSet(MapDelete(m, k), k, value), value |-> value]

LRUCache_get(m, k) ==
  IF ~MapHas(m, k)
  THEN [cache |-> m, value |-> NULL]
  ELSE LET value == MapGet(m, k)
       IN  [cache |-> MapSet(MapDelete(m, k), k, value), value |-> value]

\* faulty variant: > instead of >=
LRUCache_set_offByOne(m, max, k, v) ==
  LET m1 == IF Len(m) > max THEN MapDelete(m, FirstKey(m)) ELSE m
  IN  MapSet(m1, k, v)

\* faulty variant: the newest key is evicted
LRUCache_set_evictLast(m, max, k, v) ==
  LET m1 == IF Len(m) >= max
            THEN MapDelete(m, IF m = <<>> THEN UNDEFINED ELSE m[Len(m)][1])
            ELSE m
  IN  MapSet(m1, k, v)

\* faulty variant: eviction starts one entry early
LRUCache_set_early(m, max, k, v) ==
  LET m1 == IF Len(m) >= max - 1 THEN MapDelete(m, FirstKey(m)) ELSE m
  IN  MapSet(m1, k, v)

LRUCache_set(m, max, k, v) ==
  LET m1 == IF Len(m) >= max THEN MapDelete(m, FirstKey(m)) ELSE m
  IN  MapSet(m1, k, v)

\* faulty variant: a miss is an error
LRUCache_get_throws_onMiss(m, k) == ~MapHas(m, k)

\* get has no throw statement, and Map.has, Map.get, Map.delete and Map.set
\* complete for every key, held or not
LRUCache_get_throws(m, k) == FALSE

\* faulty variant: a set on a full cache is an error
LRUCache_set_throws_onFull(m, max, k, v) == Len(m) >= max

\* set has no throw statement; keys().next() is an object also on the empty
\* Map (value undefined), and Map.delete completes for a key not held
LRUCache_set_throws(m, max, k, v) == FALSE

\* the members class LRUCache defines
Members == {"constructor", "get", "set"}

\* ---- LRUCache of the memory-management guide -----------------------------
GuideLRUCache_get(m, k) ==
  LET item == MapGet(m, k)
  IN  IF Truthy(item)
      THEN [cache |-> MapSet(MapDelete(m, k), k, item), value |-> item]
      ELSE [cache |-> m, value |-> item]

GuideLRUCache_set(m, max, k, v) ==
  LET m1 == IF Len(m) >= max THEN MapDelete(m, FirstKey(m)) ELSE m
  IN  MapSet(m1, k, v)

\* ---- helpers ----------------------------------------------------------------
Remove(s, k) == SelectSeq(s, LAMBDA x : x # k)

Restrict(s, S) == SelectSeq(s, LAMBDA x : x \in S)

Range(s) == {s[i] : i \in DOMAIN s}

\* the keys a call removed from a Map
Evicted(before, after) == MapKeys(before) \ MapKeys(after)

NoCall == [op |-> "none", key |-> 0, value |-> UNDEFINED, ret |-> UNDEFINED,
           had |-> FALSE, full |-> FALSE, threw |-> FALSE]

NoEntry == [data |-> 0, timestamp |-> -1]

IdleCall == [pc |-> "idle", userId |-> 0, kind |-> "none", age |-> -1,
             fetch |-> 0, ret |-> 0]

\* the values Date.now() is sampled at: around every multiple of CACHE_TTL
TimePoints ==
  {t \in {w * CACHE_TTL + o : w \in 0..MaxWindows, o \in {-1, 0, 1}} : t >= 0}

\* ---- initial state --------------------------------------------------------
\* new LRUCache(maxSize)
LRUInit(capacity) ==
  /\ maxSize = capacity
  /\ cache = <<>>
  /\ last = NoCall
  /\ lastSet = [k \in Keys |-> UNDEFINED]
  /\ guide = <<>>
  /\ gret = UNDEFINED
  /\ recency = <<>>
  /\ untouched = <<>>
  /\ fifo = FALSE

\* const cache = new Map() of index.js, no request in progress
TTLInit ==
  /\ now = 0
  /\ ucache = [u \in Users |-> NoEntry]
  /\ calls = [c \in Callers |-> IdleCall]
  /\ fetchSeq = 0

\* index.js has started: connectDB is awaiting client.connect()
Starting == [pc |-> "connect", connected |-> FALSE, indexes |-> 0,
             failed |-> FALSE, listening |-> FALSE, exitCode |-> NULL]

\* the server of index.js after a start-up without failure
Running == [pc |-> "listening", connected |-> TRUE, indexes |-> NUM_INDEXES,
            failed |-> FALSE, listening |-> TRUE, exitCode |-> NULL]

\* caching-benchmarks.js before runAllBenchmarks(): the clients are created,
\* no suite exists
NoSuite == [pc |-> "none", case |-> 0, runs |-> 0, todo |-> <<>>]

BenchInit ==
  /\ stage = "setupData"
  /\ suite = NoSuite
  /\ clients = [mongo |-> "open", redis |-> "open"]
  /\ closedCall = FALSE

\* no rateLimiter call in progress, the counter key does not exist
IdleLimiter == [pc |-> "idle", current |-> 0]

RateInit(limit) ==
  /\ rateLimit = limit
  /\ counter = 0
  /\ ttl = NULL
  /\ limiter = [c \in Callers |-> IdleLimiter]
  /\ granted = 0

\* redis-rabbitmq-benchmarks.js before a benchmark function is called; Redis
\* holds the keys an earlier run left behind
NoBenchmark == [fn |-> "none", phase |-> "returned", n |-> 0, i |-> 0]

RedisInit(leftover) ==
  /\ rkeys = leftover
  /\ rb = NoBenchmark

ScriptInit == BenchInit /\ RateInit(1) /\ RedisInit({})

\* no caller is inside a call on lruCache
IdleTask == [pc |-> "idle", key |-> 0, value |-> UNDEFINED, tmp |-> UNDEFINED,
             entry |-> <<>>]

LoopInit == tasks = [c \in Callers |-> IdleTask]

\* new CircuitBreaker(request, options): options.failureThreshold || 5,
\* no failure counted, CLOSED, no request started, no timer set
CBInit(option) ==
  /\ failureThreshold = IF Truthy(option) THEN option
                                          ELSE DEFAULT_FAILURE_THRESHOLD
  /\ cbState = "CLOSED"
  /\ failures = 0
  /\ inflight = 0
  /\ timers = <<>>
  /\ cbLast = "none"
  /\ streak = 0
  /\ openFor = 0

Init ==
  /\ \E capacity \in Capacities : LRUInit(capacity)
  /\ TTLInit
  /\ LoopInit
  /\ CBInit(UNDEFINED)
  /\ boot = Running
  /\ ScriptInit

\* ---- LRUCache operations --------------------------------------------------
\* lruCache.get(key)
GetCall(k) ==
  LET r == LRUCache_get(cache, k)
  IN  /\ cache' = r.cache
      /\ last' = [op |-> "get", key |-> k, value |-> UNDEFINED, ret |-> r.value,
                  had |-> MapHas(cache, k), full |-> Len(cache) = maxSize,
                  threw |-> LRUCache_get_throws(cache, k)]
      /\ UNCHANGED <<maxSize, lastSet>>
      /\ UNCHANGED nonLruVars

\* lruCache.set(key, value)
SetCall(k, v) ==
  /\ cache' = LRUCache_set(cache, maxSize, k, v)
  /\ last' = [op |-> "set", key |-> k, value |-> v, ret |-> UNDEFINED,
              had |-> MapHas(cache, k), full |-> Len(cache) = maxSize,
              threw |-> LRUCache_set_throws(cache, maxSize, k, v)]
  /\ lastSet' = [j \in Keys |-> IF j = k THEN v
                                ELSE IF j \in MapKeys(cache') THEN lastSet[j]
                                ELSE UNDEFINED]
  /\ UNCHANGED maxSize
  /\ UNCHANGED nonLruVars

Get(k) ==
  /\ GetCall(k)
  /\ UNCHANGED <<guide, gret, recency, untouched, fifo>>

Set(k, v) ==
  /\ SetCall(k, v)
  /\ UNCHANGED <<guide, gret, recency, untouched, fifo>>

Next ==
  \/ \E k \in Keys : Get(k)
  \/ \E k \in Keys, v \in Values : Set(k, v)

Spec == Init /\ [][Next]_vars

\* new LRUCache(maxSize) stores the argument as it is: zero and negative
\* capacities construct a cache too
CtorArgs == -1..MaxCap

InitCtor ==
  /\ \E capacity \in CtorArgs : LRUInit(capacity)
  /\ TTLInit
  /\ LoopInit
  /\ CBInit(UNDEFINED)
  /\ boot = Running
  /\ ScriptInit

SpecCtor == InitCtor /\ [][Next]_vars

\* lruCache.<name>(key) for a name the class does not define: the property is
\* undefined and the call raises TypeError (not a function); nothing changes
CallUndefined(name, k) ==
  /\ name \notin Members
  /\ last' = [op |-> name, key |-> k, value |-> UNDEFINED, ret |-> UNDEFINED,
              had |-> MapHas(cache, k), full |-> Len(cache) = maxSize,
              threw |-> TRUE]
  /\ UNCHANGED <<maxSize, cache, lastSet>>
  /\ UNCHANGED <<guide, gret, recency, untouched, fifo>>
  /\ UNCHANGED nonLruVars

NextApi ==
  \/ \E k \in Keys : Get(k)
  \/ \E k \in Keys, v \in Values : Set(k, v)
  \/ \E k \in Keys : CallUndefined("remove", k)
  \/ \E k \in Keys : CallUndefined("containsKey", k)
  \/ CallUndefined("size", 0)

SpecApi == Init /\ [][NextApi]_vars

\* ---- get and set statement by statement, several callers ------------------
\* faulty variant: get awaits between its delete and its set
AwaitPoints_asyncGet == {"get_25"}

\* the statements of get and set at which the function awaits: none, neither
\* is async
AwaitPoints == {}

\* JavaScript runs a caller only while no other caller is inside a function
\* that has not returned or reached an await
CanRun(c) ==
  \A d \in Callers \ {c} :
    tasks[d].pc = "idle" \/ tasks[d].pc \in AwaitPoints

\* get, lines 22-24: a miss returns null; a hit reads the value and deletes
\* the key
GetEnter(c, k) ==
  /\ tasks[c].pc = "idle"
  /\ CanRun(c)
  /\ IF ~MapHas(cache, k)
     THEN UNCHANGED <<tasks, cache>>
     ELSE /\ tasks' = [tasks EXCEPT ![c] =
                 [pc |-> "get_25", key |-> k, value |-> UNDEFINED,
                  tmp |-> MapGet(cache, k), entry |-> cache]]
          /\ cache' = MapDelete(cache, k)
  /\ UNCHANGED <<maxSize, last, lastSet, guide, gret, recency, untouched, fifo>>
  /\ UNCHANGED nonLoopVars

\* get, lines 25-26: the key is stored again and the value returned
GetFinish(c) ==
  /\ tasks[c].pc = "get_25"
  /\ CanRun(c)
  /\ cache' = MapSet(cache, tasks[c].key, tasks[c].tmp)
  /\ tasks' = [tasks EXCEPT ![c] = IdleTask]
  /\ UNCHANGED <<maxSize, last, lastSet, guide, gret, recency, untouched, fifo>>
  /\ UNCHANGED nonLoopVars

\* set, lines 30-33: the first key is deleted when the cache is full
SetEnter(c, k, v) ==
  /\ tasks[c].pc = "idle"
  /\ CanRun(c)
  /\ cache' = IF Len(cache) >= maxSize THEN MapDelete(cache, FirstKey(cache))
                                       ELSE cache
  /\ tasks' = [tasks EXCEPT ![c] =
         [pc |-> "set_34", key |-> k, value |-> v, tmp |-> UNDEFINED,
          entry |-> cache]]
  /\ UNCHANGED <<maxSize, last, lastSet, guide, gret, recency, untouched, fifo>>
  /\ UNCHANGED nonLoopVars

\* set, line 34: the key is stored
SetFinish(c) ==
  /\ tasks[c].pc = "set_34"
  /\ CanRun(c)
  /\ cache' = MapSet(cache, tasks[c].key, tasks[c].value)
  /\ tasks' = [tasks EXCEPT ![c] = IdleTask]
  /\ UNCHANGED <<maxSize, last, lastSet, guide, gret, recency, untouched, fifo>>
  /\ UNCHANGED nonLoopVars

NextLoop ==
  \/ \E c \in Callers, k \in Keys : GetEnter(c, k)
  \/ \E c \in Callers : GetFinish(c)
  \/ \E c \in Callers, k \in Keys, v \in Values : SetEnter(c, k, v)
  \/ \E c \in Callers : SetFinish(c)

SpecLoop == Init /\ [][NextLoop]_vars

\* the same calls, with the history of uses kept: a get hit and every set
\* make their key the most recently used one
GetUsed(k) ==
  /\ GetCall(k)
  /\ recency' = IF MapHas(cache, k) THEN Append(Remove(recency, k), k)
                                    ELSE recency
  /\ UNCHANGED <<guide, gret, untouched, fifo>>

SetUsed(k, v) ==
  /\ SetCall(k, v)
  /\ recency' = Restrict(Append(Remove(recency, k), k), MapKeys(cache'))
  /\ UNCHANGED <<guide, gret, untouched, fifo>>

NextUsed ==
  \/ \E k \in Keys : GetUsed(k)
  \/ \E k \in Keys, v \in Values : SetUsed(k, v)

SpecUsed == Init /\ [][NextUsed]_vars

\* the same calls, with the history of insertions kept: a new key joins the
\* untouched entries, a get or a rewrite takes its key out of them
GetFifo(k) ==
  /\ GetCall(k)
  /\ untouched' = Remove(untouched, k)
  /\ fifo' = FALSE
  /\ UNCHANGED <<guide, gret, recency>>

SetFifo(k, v) ==
  /\ SetCall(k, v)
  /\ untouched' = Restrict(IF MapHas(cache, k) THEN Remove(untouched, k)
                                               ELSE Append(untouched, k),
                           MapKeys(cache'))
  /\ fifo' = (Evicted(cache, cache') \cap Range(untouched) # {})
  /\ UNCHANGED <<guide, gret, recency>>

NextFifo ==
  \/ \E k \in Keys : GetFifo(k)
  \/ \E k \in Keys, v \in Values : SetFifo(k, v)

SpecFifo == Init /\ [][NextFifo]_vars

\* the same calls, made on the LRUCache of the guide as well
GetBoth(k) ==
  LET g == GuideLRUCache_get(guide, k)
  IN  /\ GetCall(k)
      /\ guide' = g.cache
      /\ gret' = g.value
      /\ UNCHANGED <<recency, untouched, fifo>>

SetBoth(k, v) ==
  /\ SetCall(k, v)
  /\ guide' = GuideLRUCache_set(guide, maxSize, k, v)
  /\ gret' = UNDEFINED
  /\ UNCHANGED <<recency, untouched, fifo>>

NextBoth ==
  \/ \E k \in Keys : GetBoth(k)
  \/ \E k \in Keys, v \in Values : SetBoth(k, v)

SpecBoth == Init /\ [][NextBoth]_vars

\* ---- claims about LRUCache ------------------------------------------------
\* C1: with a positive capacity, after every get and every set the number of
\* stored entries is at most the capacity.
C1_CapacityInvariant == Len(cache) <= maxSize

C1_Witness ==
  /\ last.op = "set" /\ ~last.had /\ last.full
  /\ Len(cache) = maxSize

\* C2 (SpecUsed): a set of a new key on a full cache evicts exactly one entry,
\* the least recently used one, where a get hit and every set of a key refresh
\* its recency; the new key is then at the most-recently-used end.
C2_EvictsLeastRecentlyUsed ==
  [][(last'.op = "set" /\ ~MapHas(cache, last'.key) /\ Len(cache) = maxSize)
       => /\ Evicted(cache, cache') = {Head(recency)}
          /\ cache'[Len(cache')][1] = last'.key]_vars

\* C3: a set of a key the cache already holds evicts nothing: the keys held
\* and their number are unchanged, also when the cache is full.
C3_OverwriteEvictsNothing ==
  [][(last'.op = "set" /\ MapHas(cache, last'.key))
       => /\ MapKeys(cache') = MapKeys(cache)
          /\ Len(cache') = Len(cache)]_vars

\* C4: a set of a key the cache already holds moves that key to the
\* most-recently-used end, the end capacity eviction takes last.
C4_OverwriteMovesToEnd ==
  [][(last'.op = "set" /\ MapHas(cache, last'.key))
       => cache'[Len(cache')][1] = last'.key]_vars

\* C5 (SpecBoth): a get of a present key returns the stored value and moves
\* the key to the most-recently-used end; the keys, the values and the
\* relative order of the other keys are unchanged.  Stated of both LRUCache
\* classes.
C5_GetHitMovesToEnd ==
  [][last'.op = "get"
       => LET k == last'.key
          IN  /\ MapHas(cache, k)
                   => /\ last'.ret = MapGet(cache, k)
                      /\ cache' = Append(MapDelete(cache, k), <<k, MapGet(cache, k)>>)
              /\ MapHas(guide, k)
                   => /\ gret' = MapGet(guide, k)
                      /\ guide' = Append(MapDelete(guide, k), <<k, MapGet(guide, k)>>)]_vars

\* C27 (SpecBoth): the benchmark's LRUCache and the guide's LRUCache, given
\* the same get and set calls over values that include falsy ones, hold the
\* same keys with the same values in the same recency order after every
\* call, and a get is a hit of one exactly when it is a hit of the other.
C27_ClassesEquivalent ==
  /\ cache = guide
  /\ last.op = "get" => ((last.ret = NULL) <=> (gret = UNDEFINED))

\* C6: a get of a key that was set and not evicted since returns the value of
\* the latest set of that key.
C6_GetReturnsLatestSet ==
  [][(last'.op = "get" /\ MapHas(cache, last'.key))
       => last'.ret = lastSet[last'.key]]_vars

C6_Witness ==
  /\ last.op = "get" /\ last.had
  /\ last.ret = lastSet[last.key]
  /\ Len(cache) >= 2

\* C7: a get of a key that is not present returns absent (null) and leaves
\* keys, values and order as they were; so does a get on the empty cache.
C7_GetMissChangesNothing ==
  [][(last'.op = "get" /\ ~MapHas(cache, last'.key))
       => /\ last'.ret = NULL
          /\ cache' = cache]_vars

C7_Witness ==
  /\ last.op = "get" /\ ~last.had
  /\ last.ret = NULL
  /\ cache # <<>>

\* C8 (SpecFifo): among the entries inserted and never read or rewritten,
\* capacity eviction takes the one inserted first.
C8_FifoAmongUntouched ==
  [][\A e \in Evicted(cache, cache') :
       e \in Range(untouched) => e = Head(untouched)]_vars

C8_Witness ==
  /\ last.op = "set" /\ fifo
  /\ Len(untouched) >= 2

\* C9: a set of a new key on a cache with fewer entries than its capacity
\* removes nothing and puts the new key at the most-recently-used end.
C9_InsertBelowCapacity ==
  [][(last'.op = "set" /\ ~MapHas(cache, last'.key) /\ Len(cache) < maxSize)
       => cache' = Append(cache, <<last'.key, last'.value>>)]_vars

C9_Witness ==
  /\ last.op = "set" /\ ~last.had /\ ~last.full
  /\ Len(cache) >= 2
  /\ cache[Len(cache)][1] = last.key

\* C12 (SpecCtor): constructing with a capacity <= 0 fails, so no cache with
\* a non-positive capacity ever accepts a set.
C12_NonPositiveCapacityRejected == last.op = "set" => maxSize > 0

C14_CallsAreAtomic ==
  [][\A c \in Callers :
       /\ tasks[c].pc # "idle"
            => \A d \in Callers \ {c} : tasks'[d] = tasks[d]
       /\ (tasks[c].pc = "get_25" /\ tasks'[c].pc = "idle")
            => cache' = LRUCache_get(tasks[c].entry, tasks[c].key).cache
       /\ (tasks[c].pc = "set_34" /\ tasks'[c].pc = "idle")
            => cache' = LRUCache_set(tasks[c].entry, maxSize, tasks[c].key,
                                     tasks[c].value)]_vars

C14_Witness ==
  \E c \in Callers, d \in Callers :
    /\ c # d
    /\ tasks[c].pc = "get_25"
    /\ Len(cache) < Len(tasks[c].entry)
    /\ tasks[d].pc = "idle"

\* C15 (SpecApi): remove(key) deletes the entry of a present key and returns
\* true (1), returns false (0) and changes nothing for an absent key, and
\* never raises an error.
C15_RemoveDeletesAndReports ==
  [][last'.op = "remove"
       => /\ ~last'.threw
          /\ cache' = MapDelete(cache, last'.key)
          /\ last'.ret = IF MapHas(cache, last'.key) THEN 1 ELSE 0]_vars

\* C16 (SpecApi): size() and containsKey(key) are pure observers: the call
\* reports the number of entries, or whether the key is held, and changes
\* neither the entries nor their order.
C16_PureObservers ==
  [][last'.op \in {"size", "containsKey"}
       => /\ ~last'.threw
          /\ last'.ret = IF last'.op = "size" THEN Len(cache)
                         ELSE IF MapHas(cache, last'.key) THEN 1 ELSE 0
          /\ cache' = cache]_vars

\* ---- the TTL cache of mongodb-examples/index.js ---------------------------
\* faulty variant: <= instead of <
Fresh_inclusive(timestamp, t) == t - timestamp <= CACHE_TTL

\* Date.now() - timestamp < CACHE_TTL
Fresh(timestamp, t) == t - timestamp < CACHE_TTL

\* faulty variant: an expired entry is left in the Map
GetUserWithCache_keepExpired(c, u) ==
  /\ calls[c].pc = "idle"
  /\ IF ucache[u] # NoEntry /\ Fresh(ucache[u].timestamp, now)
     THEN /\ calls' = [calls EXCEPT ![c] =
                 [pc |-> "returned", userId |-> u, kind |-> "hit",
                  age |-> now - ucache[u].timestamp, fetch |-> 0,
                  ret |-> ucache[u].data]]
          /\ UNCHANGED <<ucache, fetchSeq>>
     ELSE /\ fetchSeq < MaxFetch
          /\ fetchSeq' = fetchSeq + 1
          /\ calls' = [calls EXCEPT ![c] =
                 [pc |-> "await", userId |-> u,
                  kind |-> IF ucache[u] = NoEntry THEN "miss" ELSE "expired",
                  age |-> IF ucache[u] = NoEntry THEN -1
                          ELSE now - ucache[u].timestamp,
                  fetch |-> fetchSeq + 1, ret |-> 0]]
          /\ UNCHANGED ucache
  /\ UNCHANGED now
  /\ UNCHANGED nonTtlVars

\* getUserWithCache(userId) up to its await: a fresh entry is returned, an
\* expired one is deleted, and without a fresh entry getUserWithPosts starts
GetUserWithCache(c, u) ==
  /\ calls[c].pc = "idle"
  /\ IF ucache[u] # NoEntry /\ Fresh(ucache[u].timestamp, now)
     THEN /\ calls' = [calls EXCEPT ![c] =
                 [pc |-> "returned", userId |-> u, kind |-> "hit",
                  age |-> now - ucache[u].timestamp, fetch |-> 0,
                  ret |-> ucache[u].data]]
          /\ UNCHANGED <<ucache, fetchSeq>>
     ELSE /\ fetchSeq < MaxFetch
          /\ ucache' = [ucache EXCEPT ![u] = NoEntry]
          /\ fetchSeq' = fetchSeq + 1
          /\ calls' = [calls EXCEPT ![c] =
                 [pc |-> "await", userId |-> u,
                  kind |-> IF ucache[u] = NoEntry THEN "miss" ELSE "expired",
                  age |-> IF ucache[u] = NoEntry THEN -1
                          ELSE now - ucache[u].timestamp,
                  fetch |-> fetchSeq + 1, ret |-> 0]]
  /\ UNCHANGED now
  /\ UNCHANGED nonTtlVars

\* getUserWithPosts resolves: the result is stored with the current time and
\* returned
FetchResolve(c) ==
  /\ calls[c].pc = "await"
  /\ ucache' = [ucache EXCEPT ![calls[c].userId] =
                  [data |-> calls[c].fetch, timestamp |-> now]]
  /\ calls' = [calls EXCEPT ![c].pc = "returned", ![c].ret = calls[c].fetch]
  /\ UNCHANGED <<now, fetchSeq>>
  /\ UNCHANGED nonTtlVars

\* faulty variant: the failure is stored like a result
FetchReject_caches(c) ==
  /\ calls[c].pc = "await"
  /\ ucache' = [ucache EXCEPT ![calls[c].userId] =
                  [data |-> calls[c].fetch, timestamp |-> now]]
  /\ calls' = [calls EXCEPT ![c].pc = "threw"]
  /\ UNCHANGED <<now, fetchSeq>>
  /\ UNCHANGED nonTtlVars

\* getUserWithPosts rejects: getUserWithCache rethrows, nothing is stored
FetchReject(c) ==
  /\ calls[c].pc = "await"
  /\ calls' = [calls EXCEPT ![c].pc = "threw"]
  /\ UNCHANGED <<now, ucache, fetchSeq>>
  /\ UNCHANGED nonTtlVars

\* the route answers (res.json or status 500) and the caller may call again
Respond(c) ==
  /\ calls[c].pc \in {"returned", "threw"}
  /\ calls' = [calls EXCEPT ![c] = IdleCall]
  /\ UNCHANGED <<now, ucache, fetchSeq>>
  /\ UNCHANGED nonTtlVars

\* time passes
Tick ==
  /\ \E t \in TimePoints : t > now /\ now' = t
  /\ UNCHANGED <<ucache, calls, fetchSeq>>
  /\ UNCHANGED nonTtlVars

NextTTL ==
  \/ \E c \in Callers, u \in Users : GetUserWithCache(c, u)
  \/ \E c \in Callers : FetchResolve(c)
  \/ \E c \in Callers : FetchReject(c)
  \/ \E c \in Callers : Respond(c)
  \/ Tick

InitTTL ==
  /\ LRUInit(1)
  /\ TTLInit
  /\ LoopInit
  /\ CBInit(UNDEFINED)
  /\ boot = Running
  /\ ScriptInit

SpecTTL == InitTTL /\ [][NextTTL]_vars

\* ---- claims about the TTL cache -------------------------------------------
\* C10: a lookup returns cached data only when the entry's age is strictly
\* less than the TTL; an entry whose expiry time (timestamp + TTL) is at or
\* before the current time is a miss, and the data is fetched again.
C10_NoExpiredRead ==
  [][\A c \in Callers :
       (calls[c].pc = "idle" /\ calls'[c].pc # "idle")
         => LET e == ucache[calls'[c].userId]
            IN  /\ calls'[c].pc = "returned"
                     => /\ e # NoEntry
                        /\ now - e.timestamp < CACHE_TTL
                        /\ calls'[c].ret = e.data
                /\ (e # NoEntry /\ e.timestamp + CACHE_TTL <= now)
                     => /\ calls'[c].pc = "await"
                        /\ calls'[c].fetch = fetchSeq']_vars

C10_Witness ==
  /\ \E c \in Callers : calls[c].kind = "hit" /\ calls[c].age = CACHE_TTL - 1
  /\ \E c \in Callers : calls[c].kind = "expired" /\ calls[c].age = CACHE_TTL

C21_FailureNotCached ==
  [][\A c \in Callers :
       /\ (calls[c].pc = "await" /\ calls'[c].pc # "await"
             /\ calls'[c].ret # calls[c].fetch)
            => /\ calls'[c].pc = "threw"
               /\ ucache' = ucache
       /\ calls'[c].pc = "threw"
            => ucache'[calls'[c].userId].data # calls'[c].fetch
       /\ (calls[c].pc = "idle" /\ calls'[c].pc # "idle"
             /\ ucache[calls'[c].userId] = NoEntry)
            => /\ calls'[c].pc = "await"
               /\ calls'[c].fetch = fetchSeq + 1]_vars

C21_Witness ==
  \E c \in Callers, d \in Callers :
    /\ calls[c].pc = "threw" /\ calls[c].fetch = 1
    /\ calls[d].pc = "await" /\ calls[d].kind = "miss" /\ calls[d].fetch = 2
    /\ calls[d].userId = calls[c].userId
    /\ ucache[calls[d].userId] = NoEntry

\* C22: for overlapping getUserWithCache calls with one userId whose entry is
\* missing or expired, getUserWithPosts is in progress at most once, and a
\* result that is stored never replaces the result of a fetch started later.
C22_OneFetchPerWindow ==
  [][/\ \A c \in Callers, d \in Callers :
          (c # d /\ calls'[c].pc = "await" /\ calls'[d].pc = "await")
            => calls'[c].userId # calls'[d].userId
     /\ \A c \in Callers :
          (calls[c].pc = "await" /\ calls'[c].pc = "returned")
            => LET e == ucache[calls[c].userId]
               IN  e = NoEntry \/ e.data < calls[c].fetch]_vars

\* ---- the start-up of mongodb-examples/index.js ----------------------------
\* faulty variant: the catch block logs and returns, the process goes on
ConnectDBFails_noExit(b) ==
  [b EXCEPT !.pc = "resolved", !.failed = TRUE]

\* connectDB, lines 30-33: the catch block ends the process with code 1
ConnectDBFails(b) ==
  [b EXCEPT !.pc = "exited", !.failed = TRUE, !.exitCode = 1]

\* await client.connect() resolves, line 21
ConnectResolves ==
  /\ boot.pc = "connect"
  /\ boot' = [boot EXCEPT !.pc = "createIndex", !.connected = TRUE]
  /\ UNCHANGED nonBootVars

\* await client.connect() rejects
ConnectRejects ==
  /\ boot.pc = "connect"
  /\ boot' = ConnectDBFails(boot)
  /\ UNCHANGED nonBootVars

\* one of the four awaited createIndex calls resolves, lines 26-29; after the
\* last one connectDB returns
CreateIndexResolves ==
  /\ boot.pc = "createIndex"
  /\ boot' = [boot EXCEPT !.indexes = boot.indexes + 1,
                          !.pc = IF boot.indexes + 1 = NUM_INDEXES
                                 THEN "resolved" ELSE "createIndex"]
  /\ UNCHANGED nonBootVars

\* one of the createIndex calls rejects
CreateIndexRejects ==
  /\ boot.pc = "createIndex"
  /\ boot' = ConnectDBFails(boot)
  /\ UNCHANGED nonBootVars

\* the then callback of connectDB(), lines 170-172: app.listen
Listen ==
  /\ boot.pc = "resolved"
  /\ boot' = [boot EXCEPT !.pc = "listening", !.listening = TRUE]
  /\ UNCHANGED nonBootVars

\* a listening server takes requests for /users/:userId
Serve ==
  /\ boot.listening
  /\ NextTTL

NextServer ==
  \/ ConnectResolves
  \/ ConnectRejects
  \/ CreateIndexResolves
  \/ CreateIndexRejects
  \/ Listen
  \/ Serve

InitServer ==
  /\ LRUInit(1)
  /\ TTLInit
  /\ LoopInit
  /\ CBInit(UNDEFINED)
  /\ boot = Starting
  /\ ScriptInit

SpecServer == InitServer /\ [][NextServer]_vars

\* C23 (SpecServer): the server listens only after connectDB has connected
\* and created all four indexes; when connecting or creating an index fails
\* the process exits with code 1 and the server never listens, so no request
\* is ever taken.
C23_ListenAfterConnectDB ==
  [][/\ boot'.listening
          => /\ boot'.connected
             /\ boot'.indexes = NUM_INDEXES
             /\ ~boot'.failed
     /\ boot'.failed => (boot'.pc = "exited" /\ boot'.exitCode = 1)
     /\ boot.pc = "exited" => boot' = boot
     /\ (\E c \in Callers : calls'[c].pc # "idle") => boot'.listening]_vars

C23_Witness ==
  /\ boot.listening
  /\ boot.indexes = NUM_INDEXES
  /\ \E c \in Callers : calls[c].pc = "returned"

\* ---- CircuitBreaker (network-optimization guide) ---------------------------
\* Time is counted in ticks; resetTimeout is ResetTicks ticks long.
nonCbVars == <<lruVars, ttlVars, loopVars, bootVars, scriptVars>>

\* the values new CircuitBreaker is given as options.failureThreshold
ThresholdOptions == {UNDEFINED} \cup (0..MaxThreshold)

\* faulty variant: an open breaker lets the call through
CircuitBreaker_rejects_never(state) == FALSE

\* execute, line 98: the call is refused when the breaker is open
CircuitBreaker_rejects(state) == state = "OPEN"

\* faulty variant: the breaker opens one failure late
CircuitBreaker_opens_late(f, threshold) == f > threshold

\* execute, line 109: the breaker opens when the counted failures have
\* reached the threshold
CircuitBreaker_opens(f, threshold) == f >= threshold

\* faulty variant: opening sets no timer
CircuitBreaker_schedule_none(tm) == tm

\* execute, lines 111-114: setTimeout(..., resetTimeout); timers wait in the
\* order they fall due
CircuitBreaker_schedule(tm) == Append(tm, ResetTicks)

InitCB ==
  /\ LRUInit(1)
  /\ TTLInit
  /\ LoopInit
  /\ \E option \in ThresholdOptions : CBInit(option)
  /\ boot = Running
  /\ ScriptInit

\* execute() up to its await, lines 98-103: an open breaker throws
\* 'Circuit breaker is OPEN', otherwise the request is started
Execute(maxInflight) ==
  /\ IF CircuitBreaker_rejects(cbState)
     THEN /\ cbLast' = "rejected"
          /\ UNCHANGED inflight
     ELSE /\ inflight < maxInflight
          /\ inflight + Len(timers) < MaxPending
          /\ inflight' = inflight + 1
          /\ cbLast' = "requested"
  /\ UNCHANGED <<failureThreshold, cbState, failures, timers, streak, openFor>>
  /\ UNCHANGED nonCbVars

\* execute() after its await, lines 103-105: the request succeeded
RequestResolves ==
  /\ inflight > 0
  /\ inflight' = inflight - 1
  /\ failures' = 0
  /\ streak' = 0
  /\ cbLast' = "succeeded"
  /\ UNCHANGED <<failureThreshold, cbState, timers, openFor>>
  /\ UNCHANGED nonCbVars

\* execute() after its await, lines 106-118: the request failed
RequestRejects ==
  /\ inflight > 0
  /\ inflight' = inflight - 1
  /\ failures' = failures + 1
  /\ streak' = streak + 1
  /\ IF CircuitBreaker_opens(failures + 1, failureThreshold)
     THEN /\ cbState' = "OPEN"
          /\ timers' = CircuitBreaker_schedule(timers)
          /\ openFor' = IF cbState = "OPEN" THEN openFor ELSE 0
     ELSE UNCHANGED <<cbState, timers, openFor>>
  /\ cbLast' = "failed"
  /\ UNCHANGED failureThreshold
  /\ UNCHANGED nonCbVars

\* the timer callback, lines 112-113, run once its delay has passed
ResetTimer ==
  /\ timers # <<>>
  /\ Head(timers) = 0
  /\ timers' = Tail(timers)
  /\ cbState' = "CLOSED"
  /\ failures' = 0
  /\ streak' = 0
  /\ openFor' = 0
  /\ cbLast' = "reset"
  /\ UNCHANGED <<failureThreshold, inflight>>
  /\ UNCHANGED nonCbVars

\* one tick of time passes
Elapse ==
  /\ timers' = [i \in 1..Len(timers) |->
                  IF timers[i] > 0 THEN timers[i] - 1 ELSE 0]
  /\ openFor' = IF cbState = "OPEN" /\ openFor < ResetTicks THEN openFor + 1
                                                            ELSE openFor
  /\ cbLast' = "tick"
  /\ UNCHANGED <<failureThreshold, cbState, failures, inflight, streak>>
  /\ UNCHANGED nonCbVars

\* callers start execute() while earlier calls are still awaiting
NextCB ==
  \/ Execute(MaxInflight)
  \/ RequestResolves
  \/ RequestRejects
  \/ ResetTimer
  \/ Elapse

SpecCB == InitCB /\ [][NextCB]_vars

\* every timer that has fallen due runs, and time goes on
SpecCBFair == SpecCB /\ WF_vars(ResetTimer) /\ WF_vars(Elapse)

\* a caller starts execute() only after the previous call has settled
NextCBSeq ==
  \/ Execute(1)
  \/ RequestResolves
  \/ RequestRejects
  \/ ResetTimer
  \/ Elapse

SpecCBSeq == InitCB /\ [][NextCBSeq]_vars

\* ---- CircuitBreaker claims --------------------------------------------------
\* C17 (SpecCB): while the breaker is OPEN every execute() is rejected with
\* 'Circuit breaker is OPEN': the request is not invoked and neither the
\* failure counter nor the state changes.
C17_OpenRejects ==
  [][(cbState = "OPEN" /\ cbLast' \in {"rejected", "requested"})
       => /\ cbLast' = "rejected"
          /\ inflight' = inflight
          /\ failures' = failures
          /\ cbState' = cbState
          /\ timers' = timers]_vars

C17_Witness ==
  /\ cbState = "OPEN"
  /\ cbLast = "rejected"
  /\ failures >= failureThreshold

\* C18 (SpecCBSeq): with calls made one at a time the breaker goes from CLOSED
\* to OPEN exactly when the number of consecutive failed requests since the
\* last success or reset reaches failureThreshold; a success sets failures
\* to 0 and leaves the breaker CLOSED.
C18_OpensAtThreshold ==
  [][/\ (cbState = "CLOSED" /\ cbState' = "OPEN")
          <=> (cbLast' = "failed" /\ streak' = failureThreshold)
     /\ cbLast' = "succeeded"
          => (failures' = 0 /\ cbState = "CLOSED" /\ cbState' = "CLOSED")
     /\ failures' = streak']_vars

C18_Witness ==
  /\ cbState = "OPEN"
  /\ cbLast = "failed"
  /\ streak = failureThreshold
  /\ failureThreshold = MaxThreshold

\* C19 (SpecCBFair): every OPEN breaker returns to CLOSED with failures 0: the
\* timer set on opening fires after resetTimeout.
C19_OpenLeadsToClosed ==
  cbState = "OPEN" ~> (cbState = "CLOSED" /\ failures = 0)

C19_Witness ==
  /\ cbLast = "reset"
  /\ cbState = "CLOSED"
  /\ failures = 0
  /\ timers = <<>>

\* C20 (SpecCB): with overlapping execute() calls a breaker that has opened
\* stays OPEN for at least resetTimeout: no timer of an earlier opening or of
\* a late failure closes a later opening early.
C20_OpenAtLeastResetTimeout ==
  [][(cbState = "OPEN" /\ cbState' = "CLOSED") => openFor >= ResetTicks]_vars

\* ---- runAllBenchmarks of caching-benchmarks.js ------------------------------
\* The clients each case of the suite calls in one run, in order: 'No cache'
\* reads MongoDB; 'In-memory cache' and 'LRU cache' read MongoDB on a miss and
\* nothing on a hit; 'Redis cache' reads Redis and on a miss reads MongoDB and
\* writes Redis.
CasePaths(case) ==
  CASE case = 1 -> {<<"mongo">>}
    [] case = 2 -> {<<>>, <<"mongo">>}
    [] case = 3 -> {<<"redis">>, <<"redis", "mongo", "redis">>}
    [] OTHER    -> {<<>>, <<"mongo">>}

\* The suite after a run of its case has called deferred.resolve(): Benchmark
\* starts the next run, after MaxRuns runs the next case, and after the last
\* case the suite is complete.
RunDone(s) ==
  IF s.runs + 1 < MaxRuns
  THEN [s EXCEPT !.pc = "ready", !.runs = s.runs + 1, !.todo = <<>>]
  ELSE IF s.case < NUM_CASES
       THEN [s EXCEPT !.pc = "ready", !.case = s.case + 1, !.runs = 0,
                      !.todo = <<>>]
       ELSE [s EXCEPT !.pc = "complete", !.runs = 0, !.todo = <<>>]

\* The case function goes on with the calls it has left: without one it
\* resolves the run; a call on an open client is awaited; a call on a closed
\* client rejects, the function throws and deferred.resolve() is never reached.
Proceed(s, todo) ==
  IF todo = <<>> THEN RunDone(s)
  ELSE IF clients[Head(todo)] = "open"
       THEN [s EXCEPT !.pc = "await", !.todo = todo]
       ELSE [s EXCEPT !.pc = "failed", !.todo = todo]

\* setupData, lines 41-62: both clients connect and the test data is stored
SetupData ==
  /\ stage = "setupData"
  /\ stage' = "runCachingBenchmarks"
  /\ UNCHANGED <<suite, clients, closedCall>>
  /\ UNCHANGED nonBenchVars

\* setupData, lines 63-66: on an error the process exits with code 1
SetupFails ==
  /\ stage = "setupData"
  /\ stage' = "exited"
  /\ UNCHANGED <<suite, clients, closedCall>>
  /\ UNCHANGED nonBenchVars

\* runCachingBenchmarks, lines 70-137: the suite is built and started with
\* run({ async: true }), which returns at once; the function returns
RunCachingBenchmarks ==
  /\ stage = "runCachingBenchmarks"
  /\ stage' = "runTimedCacheBenchmarks"
  /\ suite' = [pc |-> "ready", case |-> 1, runs |-> 0, todo |-> <<>>]
  /\ UNCHANGED <<clients, closedCall>>
  /\ UNCHANGED nonBenchVars

\* runTimedCacheBenchmarks or runMemoryUsageBenchmarks returns, lines 214-215
StageResolves ==
  /\ stage \in {"runTimedCacheBenchmarks", "runMemoryUsageBenchmarks"}
  /\ stage' = IF stage = "runTimedCacheBenchmarks"
              THEN "runMemoryUsageBenchmarks" ELSE "mongoClose"
  /\ UNCHANGED <<suite, clients, closedCall>>
  /\ UNCHANGED nonBenchVars

\* one of them throws: catch logs, lines 216-217, and finally runs
StageThrows ==
  /\ stage \in {"runTimedCacheBenchmarks", "runMemoryUsageBenchmarks"}
  /\ stage' = "mongoClose"
  /\ UNCHANGED <<suite, clients, closedCall>>
  /\ UNCHANGED nonBenchVars

\* finally: await mongoClient.close(), line 219
MongoClose ==
  /\ stage = "mongoClose"
  /\ clients' = [clients EXCEPT !.mongo = "closed"]
  /\ stage' = "redisQuit"
  /\ UNCHANGED <<suite, closedCall>>
  /\ UNCHANGED nonBenchVars

\* finally: await redisClient.quit(), line 220
RedisQuit ==
  /\ stage = "redisQuit"
  /\ clients' = [clients EXCEPT !.redis = "closed"]
  /\ stage' = "done"
  /\ UNCHANGED <<suite, closedCall>>
  /\ UNCHANGED nonBenchVars

\* Benchmark calls the fn of the current case, lines 77-126
BeginRun ==
  /\ suite.pc = "ready"
  /\ \E path \in CasePaths(suite.case) :
       /\ suite' = Proceed(suite, path)
       /\ closedCall' = (closedCall \/ Proceed(suite, path).pc = "failed")
  /\ UNCHANGED <<stage, clients>>
  /\ UNCHANGED nonBenchVars

\* the call the case function awaits resolves and the function goes on
CallResolves ==
  /\ suite.pc = "await"
  /\ suite' = Proceed(suite, Tail(suite.todo))
  /\ closedCall' = (closedCall \/ Proceed(suite, Tail(suite.todo)).pc = "failed")
  /\ UNCHANGED <<stage, clients>>
  /\ UNCHANGED nonBenchVars

NextBench ==
  \/ SetupData
  \/ SetupFails
  \/ RunCachingBenchmarks
  \/ StageResolves
  \/ StageThrows
  \/ MongoClose
  \/ RedisQuit
  \/ BeginRun
  \/ CallResolves

SpecBench == Init /\ [][NextBench]_vars

\* C24 (SpecBench): the MongoDB and Redis clients are closed only after every
\* case of the suite started by runCachingBenchmarks has completed, and no
\* case calls a client that is closed.
C24_CloseAfterSuite ==
  /\ (clients.mongo = "closed" \/ clients.redis = "closed")
       => suite.pc = "complete"
  /\ ~closedCall

\* ---- rateLimiter (Redis guide, part_004) -----------------------------------
\* The window is WindowTicks ticks long; every caller uses the same key.
\* faulty variant: the test is made on the count before the increment
RateLimiter_allowed_before(current, limit) == current - 1 <= limit

\* return current <= limit, line 231
RateLimiter_allowed(current, limit) == current <= limit

InitRate ==
  /\ LRUInit(1)
  /\ TTLInit
  /\ LoopInit
  /\ CBInit(UNDEFINED)
  /\ boot = Running
  /\ BenchInit
  /\ \E limit \in 1..MaxLimit : RateInit(limit)
  /\ RedisInit({})

\* await redis.incr(key), line 227: Redis adds one to the counter in one step,
\* creating the key at 1 when it does not exist, and answers the new value
RateIncr(c) ==
  /\ limiter[c].pc = "idle"
  /\ counter < MaxCount
  /\ counter' = counter + 1
  /\ limiter' = [limiter EXCEPT ![c] =
       [pc |-> IF counter + 1 = 1 THEN "expire" ELSE "return",
        current |-> counter + 1]]
  /\ granted' = IF RateLimiter_allowed(counter + 1, rateLimit)
                THEN granted + 1 ELSE granted
  /\ UNCHANGED <<rateLimit, ttl>>
  /\ UNCHANGED nonRateVars

\* await redis.expire(key, window), lines 228-230, by the caller that read 1;
\* on a key that has gone the command does nothing
RateExpire(c) ==
  /\ limiter[c].pc = "expire"
  /\ ttl' = IF counter > 0 THEN WindowTicks ELSE ttl
  /\ limiter' = [limiter EXCEPT ![c].pc = "return"]
  /\ UNCHANGED <<rateLimit, counter, granted>>
  /\ UNCHANGED nonRateVars

\* return current <= limit, line 231; the consumer acks or nacks, lines 236-243
RateReturn(c) ==
  /\ limiter[c].pc = "return"
  /\ limiter' = [limiter EXCEPT ![c] = IdleLimiter]
  /\ UNCHANGED <<rateLimit, counter, ttl, granted>>
  /\ UNCHANGED nonRateVars

\* a tick passes; at the end of its time Redis deletes the key
RateTick ==
  /\ ttl # NULL
  /\ IF ttl - 1 = 0
     THEN /\ counter' = 0
          /\ ttl' = NULL
          /\ granted' = 0
     ELSE /\ ttl' = ttl - 1
          /\ UNCHANGED <<counter, granted>>
  /\ UNCHANGED <<rateLimit, limiter>>
  /\ UNCHANGED nonRateVars

NextRate ==
  \/ \E c \in Callers : RateIncr(c)
  \/ \E c \in Callers : RateExpire(c)
  \/ \E c \in Callers : RateReturn(c)
  \/ RateTick

SpecRate == InitRate /\ [][NextRate]_vars

\* C25 (SpecRate): under any interleaving of the callers rateLimiter answers
\* true to at most limit calls in one window, the life of the counter key
\* from the increment that creates it to its expiry; the calls it answers
\* true are those that read a count of at most limit.
C25_AtMostLimitPerWindow ==
  /\ granted <= rateLimit
  /\ granted <= counter
  /\ \A c \in Callers :
       limiter[c].pc # "idle" => limiter[c].current >= 1

C25_Witness ==
  /\ rateLimit = MaxLimit
  /\ granted = rateLimit
  /\ counter > rateLimit
  /\ \E c \in Callers, d \in Callers :
       /\ limiter[c].pc = "return" /\ limiter[c].current = rateLimit
       /\ limiter[d].pc = "return" /\ limiter[d].current > rateLimit

\* ---- the Redis benchmarks of redis-rabbitmq-benchmarks.js ------------------
\* A key `key${i}` is the pair <<"key", i>>; a field `field${i}` of the hash
\* 'hash_benchmark' is <<"hash_benchmark", i>>, and the hash exists while it
\* has a field.
Order == <<"benchmarkRedisSimpleOps", "benchmarkRedisPipeline",
           "benchmarkRedisHash", "benchmarkCacheWithQueue">>

Prefix(fn) ==
  CASE fn = "benchmarkRedisSimpleOps" -> "key"
    [] fn = "benchmarkRedisPipeline"  -> "pipeline_key"
    [] fn = "benchmarkRedisHash"      -> "hash_benchmark"
    [] OTHER                          -> "cache_key"

\* the keys a benchmark function called with n iterations writes
CreatedKeys(fn, n) == {<<Prefix(fn), i>> : i \in 0..(n - 1)}

\* faulty variant: the cleanup loop starts at 1
CleanupKeys_fromOne(fn, n) == {<<Prefix(fn), i>> : i \in 1..(n - 1)}

\* the keys the cleanup loop of a function names: for (i = 0; i < iterations)
CleanupKeys(fn, n) == {<<Prefix(fn), i>> : i \in 0..(n - 1)}

\* what Redis holds after the cleanup step of fn at index i: the simple
\* benchmark awaits one del per key, the pipelines delete their keys in one
\* exec, and del('hash_benchmark') removes the hash with every field
AfterCleanup(keys, fn, n, i) ==
  CASE fn = "benchmarkRedisSimpleOps" ->
         keys \ ({<<Prefix(fn), i>>} \cap CleanupKeys(fn, n))
    [] fn = "benchmarkRedisHash" ->
         {k \in keys : k[1] # "hash_benchmark"}
    [] OTHER -> keys \ CleanupKeys(fn, n)

\* the keys an earlier run that did not finish may have left in Redis
Leftovers == {<<p, i>> : p \in {"key", "hash_benchmark"}, i \in 0..(MaxIter - 1)}

InitRedis ==
  /\ LRUInit(1)
  /\ TTLInit
  /\ LoopInit
  /\ CBInit(UNDEFINED)
  /\ boot = Running
  /\ BenchInit
  /\ RateInit(1)
  /\ \E leftover \in SUBSET Leftovers : RedisInit(leftover)

\* runAllBenchmarks calls the next benchmark function, lines 196-206
CallBenchmark(n) ==
  /\ rb.phase = "returned"
  /\ \E j \in 1..Len(Order) :
       /\ (rb.fn = "none" /\ j = 1) \/ (j > 1 /\ rb.fn = Order[j - 1])
       /\ rb' = [fn |-> Order[j], phase |-> "run", n |-> n, i |-> 0]
  /\ UNCHANGED rkeys
  /\ UNCHANGED nonRedisVars

\* the timed part: one pass of the loop (set and get, hset and hget, or set,
\* sendToQueue and get), or the exec of the whole pipeline
RunStep ==
  /\ rb.phase = "run"
  /\ IF rb.fn = "benchmarkRedisPipeline"
     THEN /\ rkeys' = rkeys \cup CreatedKeys(rb.fn, rb.n)
          /\ rb' = [rb EXCEPT !.phase = "cleanup", !.i = 0]
     ELSE /\ rkeys' = rkeys \cup {<<Prefix(rb.fn), rb.i>>}
          /\ rb' = IF rb.i + 1 < rb.n
                   THEN [rb EXCEPT !.i = rb.i + 1]
                   ELSE [rb EXCEPT !.phase = "cleanup", !.i = 0]
  /\ UNCHANGED nonRedisVars

\* the cleanup part: one del of the loop, the exec of the cleanup pipeline, or
\* the del of the hash; after the last one the function returns
CleanupStep ==
  /\ rb.phase = "cleanup"
  /\ rkeys' = AfterCleanup(rkeys, rb.fn, rb.n, rb.i)
  /\ rb' = IF rb.fn = "benchmarkRedisSimpleOps" /\ rb.i + 1 < rb.n
           THEN [rb EXCEPT !.i = rb.i + 1]
           ELSE [rb EXCEPT !.phase = "returned", !.i = 0]
  /\ UNCHANGED nonRedisVars

\* a Redis command rejects: the function throws and runAllBenchmarks exits
\* the process, lines 214-216
CommandRejects ==
  /\ rb.phase \in {"run", "cleanup"}
  /\ rb' = [rb EXCEPT !.phase = "threw"]
  /\ UNCHANGED rkeys
  /\ UNCHANGED nonRedisVars

NextRedis ==
  \/ \E n \in 1..MaxIter : CallBenchmark(n)
  \/ RunStep
  \/ CleanupStep
  \/ CommandRejects

SpecRedis == InitRedis /\ [][NextRedis]_vars

\* C26 (SpecRedis): each Redis benchmark function has deleted every key it
\* created when it returns, so none of its keys exists in Redis afterwards;
\* keys of other names are left as they were.
C26_KeysCleanedUp ==
  [][/\ (rb.phase # "returned" /\ rb'.phase = "returned")
          => rkeys' \cap CreatedKeys(rb.fn, rb.n) = {}
     /\ \A k \in rkeys \cup rkeys' :
          k[1] # Prefix(rb'.fn) => (k \in rkeys <=> k \in rkeys')]_vars

C26_Witness ==
  /\ rb.fn = "benchmarkCacheWithQueue"
  /\ rb.phase = "returned"
  /\ rb.n = MaxIter
  /\ <<"key", MaxIter - 1>> \in rkeys

====
